---- MODULE Spec2Model ----
(***************************************************************************)
(* Model of the BMP codec (ImgLib/bmp_image.cpp) and of the command-line   *)
(* driver (ImgConverter/main.cpp).                                          *)
(*                                                                          *)
(* Files are sequences of bytes.  The packed header structures are written  *)
(* and read byte by byte in little-endian order, the pixel rows are packed  *)
(* and unpacked as the loops of SaveBMP and LoadBMP do it, and the streams  *)
(* carry their open/good state.                                             *)
(***************************************************************************)
EXTENDS Integers, Sequences, FiniteSets

VARIABLES
    pc,          \* position of the running program
    argv,        \* arguments after argv[0]; argc = Len(argv) + 1
    in_format,   \* main: in_format  ("null" for nullptr)
    out_format,  \* main: out_format ("null" for nullptr)
    exit_code,   \* value returned by main, -1 while it runs
    path,        \* the Path argument of the running SaveBMP / LoadBMP call
    disk,        \* file system: path -> [exists, bytes]
    image,       \* the Image handed to SaveImage
    loaded,      \* the Image returned by LoadImage
    sv,          \* locals of SaveBMP
    ld,          \* locals of LoadBMP
    obs          \* observations: what the environment did and what was accessed

vars == <<pc, argv, in_format, out_format, exit_code, path, disk, image,
          loaded, sv, ld, obs>>

(***************************************************************************)
(* Bounds of the model.                                                     *)
(***************************************************************************)
MaxWidth == 7
MaxHeight == 2
MaxPattern == 1
MaxStrideWidth == 101
MaxArgs == 3

(***************************************************************************)
(* Program constants.                                                       *)
(***************************************************************************)
BM_SIGNATURE == 19778
BF_OFF_BITS == 54
BI_SIZE == 40
BI_PLANES == 1
BI_BIT_COUNT == 24
BI_COMPRESSION == 0
PELS_PER_METER == 11811
CLR_IMPORTANT == 16777216
SIZEOF_FILE_HEADER == 14
SIZEOF_INFO_HEADER == 40

Pow2_16 == 256 * 256
Pow2_24 == 256 * Pow2_16
INT32_MAX == 127 * Pow2_24 + (Pow2_24 - 1)

Min(a, b) == IF a < b THEN a ELSE b

(***************************************************************************)
(* Integer conversions of the header fields.  The integers of the model are *)
(* the 32-bit signed ones: an int32_t field holds any of them, a uint32_t   *)
(* field holds the values 0..INT32_MAX.  The sizes SaveBMP computes stay    *)
(* far below INT32_MAX for the images of the model, so that neither the int *)
(* product stride * height nor its conversion to uint32_t changes a value.  *)
(***************************************************************************)
ToU16(n) == n % Pow2_16

\* the 31 low bits of the two's complement representation of n
Low31(n) == IF n >= 0 THEN n ELSE (n + INT32_MAX) + 1

\* little-endian bytes of a value, as the packed structs lie in memory
LE16(n) == << ToU16(n) % 256, ToU16(n) \div 256 >>
LE32(n) == << Low31(n) % 256, (Low31(n) \div 256) % 256, (Low31(n) \div Pow2_16) % 256,
              (Low31(n) \div Pow2_24) + (IF n < 0 THEN 128 ELSE 0) >>

FromLE16(b, at) == b[at] + 256 * b[at + 1]

\* a uint32_t field; the files of the model keep its top bit clear
FromLE32(b, at) ==
    b[at] + 256 * b[at + 1] + Pow2_16 * b[at + 2] + Pow2_24 * (b[at + 3] % 128)

\* an int32_t field
FromLE32Signed(b, at) ==
    IF b[at + 3] >= 128
    THEN (FromLE32(b, at) - INT32_MAX) - 1
    ELSE FromLE32(b, at)

(***************************************************************************)
(* BitmapFileHeader and BitmapInfoHeader with their default member values.  *)
(***************************************************************************)
BitmapFileHeader ==
    [bfType |-> BM_SIGNATURE, bfSize |-> 0, bfReserved |-> 0, bfOffBits |-> BF_OFF_BITS]

BitmapInfoHeader ==
    [biSize |-> BI_SIZE, biWidth |-> 0, biHeight |-> 0, biPlanes |-> BI_PLANES,
     biBitCount |-> BI_BIT_COUNT, biCompression |-> BI_COMPRESSION, biSizeImage |-> 0,
     biXPelsPerMeter |-> PELS_PER_METER, biYPelsPerMeter |-> PELS_PER_METER,
     biClrUsed |-> 0, biClrImportant |-> CLR_IMPORTANT]

\* faulty variant: without the packing, two bytes of padding follow bfType
FileHeaderBytes_Unpacked(h) ==
    LE16(h.bfType) \o <<0, 0>> \o LE32(h.bfSize) \o LE32(h.bfReserved) \o LE32(h.bfOffBits)

\* the 14 bytes of a BitmapFileHeader object
FileHeaderBytes(h) ==
    LE16(h.bfType) \o LE32(h.bfSize) \o LE32(h.bfReserved) \o LE32(h.bfOffBits)

\* the 40 bytes of a BitmapInfoHeader object
InfoHeaderBytes(h) ==
    LE32(h.biSize) \o LE32(h.biWidth) \o LE32(h.biHeight) \o LE16(h.biPlanes)
    \o LE16(h.biBitCount) \o LE32(h.biCompression) \o LE32(h.biSizeImage)
    \o LE32(h.biXPelsPerMeter) \o LE32(h.biYPelsPerMeter) \o LE32(h.biClrUsed)
    \o LE32(h.biClrImportant)

\* a BitmapFileHeader object filled from 14 bytes starting after offset `off`
FileHeaderFrom(b, off) ==
    [bfType |-> FromLE16(b, off + 1), bfSize |-> FromLE32(b, off + 3),
     bfReserved |-> FromLE32(b, off + 7), bfOffBits |-> FromLE32(b, off + 11)]

\* a BitmapInfoHeader object filled from 40 bytes starting after offset `off`
InfoHeaderFrom(b, off) ==
    [biSize |-> FromLE32(b, off + 1), biWidth |-> FromLE32Signed(b, off + 5),
     biHeight |-> FromLE32Signed(b, off + 9), biPlanes |-> FromLE16(b, off + 13),
     biBitCount |-> FromLE16(b, off + 15), biCompression |-> FromLE32(b, off + 17),
     biSizeImage |-> FromLE32(b, off + 21),
     biXPelsPerMeter |-> FromLE32Signed(b, off + 25),
     biYPelsPerMeter |-> FromLE32Signed(b, off + 29),
     biClrUsed |-> FromLE32(b, off + 33), biClrImportant |-> FromLE32(b, off + 37)]

(***************************************************************************)
(* Image (img_lib.h): width, height and height lines of width pixels.       *)
(***************************************************************************)
Color(r, g, b) == [r |-> r, g |-> g, b |-> b]
Color_Black == Color(0, 0, 0)

\* Image(w, h, fill)
Image_New(w, h, fill) ==
    [width |-> w, height |-> h, pixels |-> [y \in 1..h |-> [x \in 1..w |-> fill]]]

\* Image{}: the empty image
Image_Default == Image_New(0, 0, Color_Black)

\* explicit operator bool
Image_Valid(img) == img.width > 0 /\ img.height > 0

(***************************************************************************)
(* GetBMPStride                                                             *)
(***************************************************************************)
\* faulty variant: without the + 3 the division rounds down
GetBMPStride_RoundsDown(w) == 4 * ((w * 3) \div 4)

\* faulty variant: the row length without the alignment to 4 bytes
GetBMPStride_NoPadding(w) == w * 3

\* lines 38-42
GetBMPStride(w) == 4 * ((w * 3 + 3) \div 4)

(***************************************************************************)
(* The inner loop of SaveBMP: row[3x..3x+2] = line[x].b, .g, .r for every   *)
(* x < width.  Bytes the loop does not reach keep their value.  An index    *)
(* outside the row or the line is not performed here; SaveRowInBounds       *)
(* records whether one was asked for.                                       *)
(***************************************************************************)
\* faulty variant: the channels in the order of the image, r, g, b
PackRow_RGB(row, line, width) ==
    [i \in 1..Len(row) |->
        LET x == (i - 1) \div 3
            c == (i - 1) % 3
        IN  IF x < width /\ x < Len(line)
            THEN (IF c = 0 THEN line[x + 1].r ELSE IF c = 1 THEN line[x + 1].g ELSE line[x + 1].b)
            ELSE row[i]]

\* lines 68-72
PackRow(row, line, width) ==
    [i \in 1..Len(row) |->
        LET x == (i - 1) \div 3
            c == (i - 1) % 3
        IN  IF x < width /\ x < Len(line)
            THEN (IF c = 0 THEN line[x + 1].b ELSE IF c = 1 THEN line[x + 1].g ELSE line[x + 1].r)
            ELSE row[i]]

SaveRowInBounds(rowLen, lineLen, width) ==
    \A x \in 0..(width - 1) : 3 * x + 2 < rowLen /\ x < lineLen

(***************************************************************************)
(* The inner loop of LoadBMP: line[x].b, .g, .r = row[3x..3x+2] for every   *)
(* x < width.                                                               *)
(***************************************************************************)
UnpackRow(line, row, width) ==
    [j \in 1..Len(line) |->
        IF j - 1 < width /\ 3 * (j - 1) + 2 < Len(row)
        THEN Color(row[3 * (j - 1) + 3], row[3 * (j - 1) + 2], row[3 * (j - 1) + 1])
        ELSE line[j]]

LoadRowInBounds(rowLen, lineLen, width) ==
    \A x \in 0..(width - 1) : 3 * x + 2 < rowLen /\ x < lineLen

(***************************************************************************)
(* std::ofstream / std::ifstream state, and the file system.                *)
(***************************************************************************)
Stream_Closed == [open |-> FALSE, good |-> FALSE]

Absent == [exists |-> FALSE, bytes |-> <<>>]

File(bytes) == [exists |-> TRUE, bytes |-> bytes]

\* what one out.write of `data` can do: <<TRUE, n>> all n bytes are written,
\* <<FALSE, n>> the write fails after n bytes.  A stream that is not good
\* writes nothing, and a write of no bytes cannot fail.
WriteOutcomes(out, data) ==
    IF out.good /\ Len(data) > 0
    THEN {<<TRUE, Len(data)>>, <<FALSE, 0>>, <<FALSE, Len(data) \div 2>>}
    ELSE {<<TRUE, Len(data)>>}

\* out.write(data, Len(data)) with outcome o on the file contents `bytes`
Ofstream_Write(out, bytes, data, o) ==
    IF ~out.good THEN [out |-> out, bytes |-> bytes]
    ELSE IF o[1] THEN [out |-> out, bytes |-> bytes \o data]
    ELSE [out |-> [out EXCEPT !.good = FALSE], bytes |-> bytes \o SubSeq(data, 1, o[2])]

Zeros(n) == [i \in 1..n |-> 0]

(***************************************************************************)
(* Locals of the two codec functions before the call.                       *)
(***************************************************************************)
SaveLocals ==
    [width |-> 0, height |-> 0, stride |-> 0, image_size |-> 0,
     file_header |-> BitmapFileHeader, info_header |-> BitmapInfoHeader,
     out |-> Stream_Closed, row |-> <<>>, y |-> 0, ret |-> FALSE]

LoadLocals ==
    [in |-> Stream_Closed, pos |-> 0, gcount |-> 0,
     file_header |-> BitmapFileHeader, info_header |-> BitmapInfoHeader,
     width |-> 0, height |-> 0, stride |-> 0, row |-> <<>>, y |-> 0,
     image |-> Image_Default]

NoObs ==
    [open_failed |-> FALSE,    \* the ofstream could not open its file
     write_failed |-> FALSE,   \* some out.write failed
     out_opens |-> 0,          \* output streams constructed
     save_calls |-> 0,         \* SaveImage calls
     load_calls |-> 0,         \* LoadImage calls
     rows_read |-> 0,          \* in.read calls for a pixel row
     rows_full |-> 0,          \* of these, the ones that delivered ld.stride bytes
     save_in_bounds |-> TRUE,  \* every index SaveBMP used was inside its buffer
     load_in_bounds |-> TRUE,  \* every index LoadBMP used was inside its buffer
     returned_at |-> 0]        \* source line of the return statement LoadBMP took

main_vars == <<argv, in_format, out_format, exit_code>>

(***************************************************************************)
(* SaveBMP                                                                  *)
(***************************************************************************)
\* faulty variant: return out.is_open();
SaveBMP_Result_IsOpen(out) == out.open

\* return out.good();
SaveBMP_Result(out) == out.good

\* lines 46-57: the locals and the two headers
SaveBMP_Begin ==
    /\ pc = "save_begin"
    /\ LET width == image.width
           height == image.height
           stride == GetBMPStride(width)
           image_size == stride * height
       IN  sv' = [SaveLocals EXCEPT
                    !.width = width, !.height = height, !.stride = stride,
                    !.image_size = image_size,
                    !.file_header.bfSize =
                        SIZEOF_FILE_HEADER + SIZEOF_INFO_HEADER + image_size,
                    !.info_header.biWidth = width,
                    !.info_header.biHeight = height,
                    !.info_header.biSizeImage = image_size]
    /\ pc' = "save_open"
    /\ obs' = [obs EXCEPT !.save_calls = @ + 1]
    /\ UNCHANGED <<main_vars, path, disk, image, loaded, ld>>

\* line 59: ofstream out(file, ios::binary) creates or truncates the file
SaveBMP_Open ==
    /\ pc = "save_open"
    /\ \E ok \in BOOLEAN :
        /\ sv' = [sv EXCEPT !.out = [open |-> ok, good |-> ok]]
        /\ disk' = IF ok THEN [disk EXCEPT ![path] = File(<<>>)] ELSE disk
        /\ obs' = [obs EXCEPT !.open_failed = ~ok, !.out_opens = @ + 1]
    /\ pc' = "save_file_header"
    /\ UNCHANGED <<main_vars, path, image, loaded, ld>>

\* line 61
SaveBMP_WriteFileHeader ==
    /\ pc = "save_file_header"
    /\ \E o \in WriteOutcomes(sv.out, FileHeaderBytes(sv.file_header)) :
        LET w == Ofstream_Write(sv.out, disk[path].bytes, FileHeaderBytes(sv.file_header), o)
        IN  /\ sv' = [sv EXCEPT !.out = w.out]
            /\ disk' = [disk EXCEPT ![path].bytes = w.bytes]
            /\ obs' = [obs EXCEPT !.write_failed = @ \/ ~o[1]]
    /\ pc' = "save_info_header"
    /\ UNCHANGED <<main_vars, path, image, loaded, ld>>

\* lines 62-66: the info header, then the zeroed row buffer and y = height - 1
SaveBMP_WriteInfoHeader ==
    /\ pc = "save_info_header"
    /\ \E o \in WriteOutcomes(sv.out, InfoHeaderBytes(sv.info_header)) :
        LET w == Ofstream_Write(sv.out, disk[path].bytes, InfoHeaderBytes(sv.info_header), o)
        IN  /\ sv' = [sv EXCEPT !.out = w.out, !.row = Zeros(sv.stride),
                                !.y = sv.height - 1]
            /\ disk' = [disk EXCEPT ![path].bytes = w.bytes]
            /\ obs' = [obs EXCEPT !.write_failed = @ \/ ~o[1]]
    /\ pc' = "save_rows"
    /\ UNCHANGED <<main_vars, path, image, loaded, ld>>

\* lines 66-74: one iteration of the row loop
SaveBMP_WriteRow ==
    /\ pc = "save_rows"
    /\ sv.y >= 0
    /\ LET has_line == (sv.y + 1) \in DOMAIN image.pixels
           line == IF has_line THEN image.pixels[sv.y + 1] ELSE <<>>
           row == PackRow(sv.row, line, sv.width)
       IN  \E o \in WriteOutcomes(sv.out, row) :
            LET w == Ofstream_Write(sv.out, disk[path].bytes, row, o)
            IN  /\ sv' = [sv EXCEPT !.out = w.out, !.row = row, !.y = sv.y - 1]
                /\ disk' = [disk EXCEPT ![path].bytes = w.bytes]
                /\ obs' = [obs EXCEPT
                             !.write_failed = @ \/ ~o[1],
                             !.save_in_bounds =
                                 @ /\ has_line
                                   /\ SaveRowInBounds(Len(sv.row), Len(line), sv.width)]
    /\ pc' = "save_rows"
    /\ UNCHANGED <<main_vars, path, image, loaded, ld>>

\* line 76
SaveBMP_Return ==
    /\ pc = "save_rows"
    /\ sv.y < 0
    /\ sv' = [sv EXCEPT !.ret = SaveBMP_Result(sv.out),
                        !.out = [sv.out EXCEPT !.open = FALSE]]
    /\ pc' = "save_done"
    /\ UNCHANGED <<main_vars, path, disk, image, loaded, ld, obs>>

SaveBMP ==
    \/ SaveBMP_Begin
    \/ SaveBMP_Open
    \/ SaveBMP_WriteFileHeader
    \/ SaveBMP_WriteInfoHeader
    \/ SaveBMP_WriteRow
    \/ SaveBMP_Return

(***************************************************************************)
(* LoadBMP                                                                  *)
(***************************************************************************)
\* faulty variant: biWidth < 0 and biHeight < 0 in place of <= 0
HeadersUnsupported_AllowsZero(fh, ih) ==
    \/ fh.bfType # BM_SIGNATURE
    \/ fh.bfOffBits # BF_OFF_BITS
    \/ ih.biSize # BI_SIZE
    \/ ih.biPlanes # BI_PLANES
    \/ ih.biBitCount # BI_BIT_COUNT
    \/ ih.biCompression # BI_COMPRESSION
    \/ ih.biWidth < 0
    \/ ih.biHeight < 0

\* lines 100-106: the condition under which the headers are rejected
HeadersUnsupported(fh, ih) ==
    \/ fh.bfType # BM_SIGNATURE
    \/ fh.bfOffBits # BF_OFF_BITS
    \/ ih.biSize # BI_SIZE
    \/ ih.biPlanes # BI_PLANES
    \/ ih.biBitCount # BI_BIT_COUNT
    \/ ih.biCompression # BI_COMPRESSION
    \/ ih.biWidth <= 0
    \/ ih.biHeight <= 0

\* faulty variant: only a read that delivers nothing counts as failed
ShortRead_OnlyEmpty(gcount, stride) == gcount = 0 /\ stride # 0

\* line 121: in.gcount() != stride
ShortRead(gcount, stride) == gcount # stride

\* line 114: the width the image is constructed with
AllocWidth(width, stride) == stride \div 3

\* the bytes an in.read of n bytes can still deliver
Available(in, bytes, pos, n) ==
    IF ~in.good \/ pos >= Len(bytes) THEN 0 ELSE Min(n, Len(bytes) - pos)

\* return {};
LoadBMP_Fail(line) ==
    /\ loaded' = Image_Default
    /\ pc' = "load_done"
    /\ obs' = [obs EXCEPT !.returned_at = line]

\* lines 81-82
LoadBMP_Open ==
    /\ pc = "load_begin"
    /\ \E ok \in (IF disk[path].exists THEN BOOLEAN ELSE {FALSE}) :
        IF ok
        THEN /\ ld' = [LoadLocals EXCEPT !.in = [open |-> TRUE, good |-> TRUE]]
             /\ pc' = "load_file_header"
             /\ obs' = [obs EXCEPT !.load_calls = @ + 1]
             /\ UNCHANGED loaded
        ELSE /\ ld' = LoadLocals
             /\ loaded' = Image_Default
             /\ pc' = "load_done"
             /\ obs' = [obs EXCEPT !.load_calls = @ + 1, !.returned_at = 82]
    /\ UNCHANGED <<main_vars, path, disk, image, sv>>

\* lines 87-91
LoadBMP_ReadFileHeader ==
    /\ pc = "load_file_header"
    /\ LET n == Available(ld.in, disk[path].bytes, ld.pos, SIZEOF_FILE_HEADER)
       IN  IF n = SIZEOF_FILE_HEADER
           THEN /\ ld' = [ld EXCEPT
                            !.file_header = FileHeaderFrom(disk[path].bytes, ld.pos),
                            !.pos = @ + n, !.gcount = n]
                /\ pc' = "load_info_header"
                /\ UNCHANGED <<loaded, obs>>
           ELSE /\ ld' = [ld EXCEPT !.in.good = FALSE, !.pos = @ + n, !.gcount = n]
                /\ LoadBMP_Fail(90)
    /\ UNCHANGED <<main_vars, path, disk, image, sv>>

\* lines 93-97
LoadBMP_ReadInfoHeader ==
    /\ pc = "load_info_header"
    /\ LET n == Available(ld.in, disk[path].bytes, ld.pos, SIZEOF_INFO_HEADER)
       IN  IF n = SIZEOF_INFO_HEADER
           THEN /\ ld' = [ld EXCEPT
                            !.info_header = InfoHeaderFrom(disk[path].bytes, ld.pos),
                            !.pos = @ + n, !.gcount = n]
                /\ pc' = "load_validate"
                /\ UNCHANGED <<loaded, obs>>
           ELSE /\ ld' = [ld EXCEPT !.in.good = FALSE, !.pos = @ + n, !.gcount = n]
                /\ LoadBMP_Fail(96)
    /\ UNCHANGED <<main_vars, path, disk, image, sv>>

\* lines 100-108
LoadBMP_Validate ==
    /\ pc = "load_validate"
    /\ IF HeadersUnsupported(ld.file_header, ld.info_header)
       THEN LoadBMP_Fail(107)
       ELSE /\ pc' = "load_alloc"
            /\ UNCHANGED <<loaded, obs>>
    /\ UNCHANGED <<main_vars, path, disk, image, sv, ld>>

\* lines 110-119: the locals, the image, the row buffer, the seek, y = height - 1
LoadBMP_Alloc ==
    /\ pc = "load_alloc"
    /\ LET width == ld.info_header.biWidth
           height == ld.info_header.biHeight
           stride == GetBMPStride(width)
       IN  ld' = [ld EXCEPT
                    !.width = width, !.height = height, !.stride = stride,
                    !.image = Image_New(AllocWidth(width, stride), height, Color_Black),
                    !.row = Zeros(stride),
                    !.pos = ld.file_header.bfOffBits,
                    !.y = height - 1]
    /\ pc' = "load_rows"
    /\ UNCHANGED <<main_vars, path, disk, image, loaded, sv, obs>>

\* lines 119-129: one iteration of the row loop
LoadBMP_ReadRow ==
    /\ pc = "load_rows"
    /\ ld.y >= 0
    /\ LET bytes == disk[path].bytes
           n == Available(ld.in, bytes, ld.pos, ld.stride)
           row == [i \in 1..Len(ld.row) |-> IF i <= n THEN bytes[ld.pos + i] ELSE ld.row[i]]
           has_line == (ld.y + 1) \in DOMAIN ld.image.pixels
           line == IF has_line THEN ld.image.pixels[ld.y + 1] ELSE <<>>
       IN  IF ShortRead(n, ld.stride)
           THEN /\ ld' = [ld EXCEPT !.in.good = FALSE, !.row = row, !.pos = @ + n,
                                    !.gcount = n]
                /\ loaded' = Image_Default
                /\ pc' = "load_done"
                /\ obs' = [obs EXCEPT !.returned_at = 121, !.rows_read = @ + 1]
           ELSE /\ ld' = [ld EXCEPT
                            !.in.good = (n = ld.stride) /\ @,
                            !.row = row, !.pos = @ + n, !.gcount = n,
                            !.image.pixels =
                                IF has_line
                                THEN [@ EXCEPT ![ld.y + 1] = UnpackRow(line, row, ld.width)]
                                ELSE @,
                            !.y = @ - 1]
                /\ pc' = "load_rows"
                /\ obs' = [obs EXCEPT
                             !.rows_read = @ + 1,
                             !.rows_full = @ + (IF n = ld.stride THEN 1 ELSE 0),
                             !.load_in_bounds =
                                 @ /\ has_line
                                   /\ LoadRowInBounds(Len(row), Len(line), ld.width)]
                /\ UNCHANGED loaded
    /\ UNCHANGED <<main_vars, path, disk, image, sv>>

\* line 131
LoadBMP_Return ==
    /\ pc = "load_rows"
    /\ ld.y < 0
    /\ loaded' = ld.image
    /\ pc' = "load_done"
    /\ obs' = [obs EXCEPT !.returned_at = 131]
    /\ UNCHANGED <<main_vars, path, disk, image, sv, ld>>

LoadBMP ==
    \/ LoadBMP_Open
    \/ LoadBMP_ReadFileHeader
    \/ LoadBMP_ReadInfoHeader
    \/ LoadBMP_Validate
    \/ LoadBMP_Alloc
    \/ LoadBMP_ReadRow
    \/ LoadBMP_Return

(***************************************************************************)
(* Inputs: paths, images and files.                                         *)
(***************************************************************************)
Path_a_bmp == <<"a", ".", "b", "m", "p">>
Path_b_bmp == <<"b", ".", "b", "m", "p">>
Path_a_jpg == <<"a", ".", "j", "p", "g">>
Path_a_jpeg == <<"a", ".", "j", "p", "e", "g">>
Path_a_ppm == <<"a", ".", "p", "p", "m">>
Path_a_png == <<"a", ".", "p", "n", "g">>
Path_a_BMP == <<"a", ".", "B", "M", "P">>
Path_dot_bmp == <<".", "b", "m", "p">>

Paths == {Path_a_bmp, Path_b_bmp, Path_a_jpg, Path_a_jpeg, Path_a_ppm, Path_a_png,
          Path_a_BMP, Path_dot_bmp}

\* an image whose pixels differ from place to place and from channel to channel
PatternImage(w, h, p) ==
    [width |-> w, height |-> h,
     pixels |-> [y \in 1..h |-> [x \in 1..w |->
        Color((101 * p + 50 * y + 7 * x) % 256,
              (101 * p + 50 * y + 7 * x + 85) % 256,
              (101 * p + 50 * y + 7 * x + 170) % 256)]]]

\* top row (255,0,0) (0,255,0), bottom row (0,0,255) (255,255,255)
Fixture2x2 ==
    [width |-> 2, height |-> 2,
     pixels |-> << <<Color(255, 0, 0), Color(0, 255, 0)>>,
                   <<Color(0, 0, 255), Color(255, 255, 255)>> >>]

Images ==
    {PatternImage(w, h, p) : w \in 0..MaxWidth, h \in 0..MaxHeight, p \in 0..MaxPattern}
    \cup {Fixture2x2}

\* pixel data of a file written by some other program; its padding is not zero
ForeignData(n) == [i \in 1..n |-> (37 * i + 11) % 256]

\* an upper bound of the pixel data of the images of the model, and a little more
MaxDataLen == 4 * MaxWidth * MaxHeight + 2

ForeignBytes(bfType, bfOffBits, biSize, biPlanes, biBitCount, biCompression, w, h) ==
    FileHeaderBytes([BitmapFileHeader EXCEPT !.bfType = bfType, !.bfOffBits = bfOffBits])
    \o InfoHeaderBytes([BitmapInfoHeader EXCEPT
                          !.biSize = biSize, !.biWidth = w, !.biHeight = h,
                          !.biPlanes = biPlanes, !.biBitCount = biBitCount,
                          !.biCompression = biCompression])
    \o ForeignData(MaxDataLen)

FileLengths == {0, 13, 14, 53} \cup (54..(54 + MaxDataLen))

\* files with supported headers, cut at every length
TruncatedFiles ==
    {File(SubSeq(ForeignBytes(BM_SIGNATURE, BF_OFF_BITS, BI_SIZE, BI_PLANES, BI_BIT_COUNT,
                              BI_COMPRESSION, w, h), 1, n)) :
        w \in 1..MaxWidth, h \in 1..MaxHeight, n \in FileLengths}

\* "XX" is 0x5858
HeaderDims == {<<-1, 1>>, <<0, 1>>, <<1, 0>>, <<1, -1>>, <<0, 0>>, <<2, 1>>, <<3, 2>>}

\* complete files with every combination of header fields
HeaderFiles ==
    {File(ForeignBytes(t, o, s, pl, bc, c, d[1], d[2])) :
        t \in {BM_SIGNATURE, 22616}, o \in {BF_OFF_BITS, 138}, s \in {BI_SIZE, 124},
        pl \in {BI_PLANES, 0}, bc \in {BI_BIT_COUNT, 8, 32}, c \in {BI_COMPRESSION, 1},
        d \in HeaderDims}

LoadInputs == {Absent} \cup TruncatedFiles \cup HeaderFiles

(***************************************************************************)
(* The codec on its own: SaveBMP of an image followed by LoadBMP of the     *)
(* file it wrote, or LoadBMP of a file written by another program.          *)
(***************************************************************************)
InitIdle ==
    /\ in_format = "null"
    /\ out_format = "null"
    /\ exit_code = -1
    /\ loaded = Image_Default
    /\ sv = SaveLocals
    /\ ld = LoadLocals
    /\ obs = NoObs

Init ==
    /\ InitIdle
    /\ argv = <<>>
    /\ path = Path_a_bmp
    /\ \/ /\ pc = "save_begin"
          /\ image \in Images
          /\ disk = [p \in Paths |-> Absent]
       \/ /\ pc = "load_begin"
          /\ image = Image_Default
          /\ \E f \in LoadInputs : disk = [p \in Paths |-> IF p = Path_a_bmp THEN f ELSE Absent]

\* decode(encode(buffer)): the file SaveBMP wrote is given to LoadBMP
DecodeEncoded ==
    /\ pc = "save_done"
    /\ pc' = "load_begin"
    /\ UNCHANGED <<main_vars, path, disk, image, loaded, sv, ld, obs>>

Next == SaveBMP \/ DecodeEncoded \/ LoadBMP

Spec == Init /\ [][Next]_vars

(***************************************************************************)
(* GetBMPStride at its two call sites, for a wider range of widths: SaveBMP *)
(* of an image without rows, and LoadBMP of a file that ends after its      *)
(* headers, up to the allocation of the row buffer.                         *)
(***************************************************************************)
HeadersOnly(w) ==
    File(SubSeq(ForeignBytes(BM_SIGNATURE, BF_OFF_BITS, BI_SIZE, BI_PLANES, BI_BIT_COUNT,
                             BI_COMPRESSION, w, 1), 1, 54))

InitStride ==
    /\ InitIdle
    /\ argv = <<>>
    /\ path = Path_a_bmp
    /\ \E w \in 0..MaxStrideWidth :
        \/ /\ pc = "save_begin"
           /\ image = PatternImage(w, 0, 0)
           /\ disk = [p \in Paths |-> Absent]
        \/ /\ pc = "load_begin"
           /\ image = Image_Default
           /\ disk = [p \in Paths |-> IF p = Path_a_bmp THEN HeadersOnly(w) ELSE Absent]

NextStride ==
    \/ SaveBMP_Begin
    \/ LoadBMP_Open
    \/ LoadBMP_ReadFileHeader
    \/ LoadBMP_ReadInfoHeader
    \/ LoadBMP_Validate
    \/ LoadBMP_Alloc

SpecStride == InitStride /\ [][NextStride]_vars

(***************************************************************************)
(* main                                                                     *)
(***************************************************************************)
\* the index of the last "." of p, 0 if there is none
LastDot(p) ==
    IF \E i \in 1..Len(p) : p[i] = "."
    THEN CHOOSE i \in 1..Len(p) : p[i] = "." /\ \A j \in (i + 1)..Len(p) : p[j] # "."
    ELSE 0

\* path::extension() of a path that is a bare file name: from the last "." on,
\* empty if there is none or if the only one starts the name
Extension(p) ==
    IF LastDot(p) <= 1 \/ p = <<".", ".">> THEN <<>> ELSE SubSeq(p, LastDot(p), Len(p))

\* faulty variant: ".jpeg" is not recognised
GetFormatByExtension_NoJpegAlias(input_file) ==
    LET ext == Extension(input_file)
    IN  IF ext = <<".", "j", "p", "g">> THEN "JPEG"
        ELSE IF ext = <<".", "p", "p", "m">> THEN "PPM"
        ELSE IF ext = <<".", "b", "m", "p">> THEN "BMP"
        ELSE "UNKNOWN"

\* lines 59-74
GetFormatByExtension(input_file) ==
    LET ext == Extension(input_file)
    IN  IF ext = <<".", "j", "p", "g">> \/ ext = <<".", "j", "p", "e", "g">> THEN "JPEG"
        ELSE IF ext = <<".", "p", "p", "m">> THEN "PPM"
        ELSE IF ext = <<".", "b", "m", "p">> THEN "BMP"
        ELSE "UNKNOWN"

\* the interface object returned, "null" for nullptr
GetFormatInterface(p) ==
    LET format == GetFormatByExtension(p)
    IN  IF format = "JPEG" THEN "jpeg"
        ELSE IF format = "PPM" THEN "ppm"
        ELSE IF format = "BMP" THEN "bmp"
        ELSE "null"

\* what LoadPPM and LoadJPEG may return
ExternalImages == {Image_Default, Fixture2x2, PatternImage(3, 1, 0)}

\* what the input file may hold
MainFiles ==
    {Absent,
     File(SubSeq(ForeignBytes(BM_SIGNATURE, BF_OFF_BITS, BI_SIZE, BI_PLANES, BI_BIT_COUNT,
                              BI_COMPRESSION, 2, 1), 1, 54 + 8)),
     File(SubSeq(ForeignBytes(BM_SIGNATURE, BF_OFF_BITS, BI_SIZE, BI_PLANES, BI_BIT_COUNT,
                              BI_COMPRESSION, 2, 2), 1, 54 + 8)),
     File(SubSeq(ForeignBytes(BM_SIGNATURE, BF_OFF_BITS, BI_SIZE, BI_PLANES, 8,
                              BI_COMPRESSION, 2, 1), 1, 54 + 8))}

ArgLists == UNION {[1..n -> Paths] : n \in 0..MaxArgs}

InitMain ==
    /\ InitIdle
    /\ pc = "main_begin"
    /\ argv \in ArgLists
    /\ path = <<>>
    /\ image = Image_Default
    /\ \E f \in MainFiles :
        disk = [p \in Paths |-> IF Len(argv) >= 1 /\ p = argv[1] THEN f ELSE Absent]

Main_Exit(code) ==
    /\ pc' = "exit"
    /\ exit_code' = code

\* lines 96-102
Main_CheckArgs ==
    /\ pc = "main_begin"
    /\ IF Len(argv) + 1 # 3
       THEN Main_Exit(1)
       ELSE pc' = "main_in_format" /\ UNCHANGED exit_code
    /\ UNCHANGED <<argv, in_format, out_format, path, disk, image, loaded, sv, ld, obs>>

\* lines 104-108
Main_InFormat ==
    /\ pc = "main_in_format"
    /\ in_format' = GetFormatInterface(argv[1])
    /\ IF in_format' = "null"
       THEN Main_Exit(2)
       ELSE pc' = "main_out_format" /\ UNCHANGED exit_code
    /\ UNCHANGED <<argv, out_format, path, disk, image, loaded, sv, ld, obs>>

\* lines 110-114
Main_OutFormat ==
    /\ pc = "main_out_format"
    /\ out_format' = GetFormatInterface(argv[2])
    /\ IF out_format' = "null"
       THEN Main_Exit(3)
       ELSE pc' = "main_load" /\ UNCHANGED exit_code
    /\ UNCHANGED <<argv, in_format, path, disk, image, loaded, sv, ld, obs>>

\* line 116: in_format->LoadImage(in_path); ImageBMP calls LoadBMP, the other
\* two call into the external codecs
Main_Load ==
    /\ pc = "main_load"
    /\ path' = argv[1]
    /\ IF in_format = "bmp"
       THEN /\ pc' = "load_begin"
            /\ UNCHANGED <<loaded, obs>>
       ELSE /\ pc' = "load_done"
            /\ loaded' \in ExternalImages
            /\ obs' = [obs EXCEPT !.load_calls = @ + 1]
    /\ UNCHANGED <<main_vars, disk, image, sv, ld>>

\* lines 116-120
Main_CheckLoad ==
    /\ pc = "load_done"
    /\ image' = loaded
    /\ IF ~Image_Valid(image')
       THEN Main_Exit(4)
       ELSE pc' = "main_save" /\ UNCHANGED exit_code
    /\ UNCHANGED <<argv, in_format, out_format, path, disk, loaded, sv, ld, obs>>

\* line 122: out_format->SaveImage(out_path, image); ImageBMP calls SaveBMP, the
\* other two call into the external codecs, which open the file and may fail
Main_Save ==
    /\ pc = "main_save"
    /\ path' = argv[2]
    /\ IF out_format = "bmp"
       THEN /\ pc' = "save_begin"
            /\ UNCHANGED <<sv, obs>>
       ELSE /\ pc' = "save_done"
            /\ \E ok \in BOOLEAN : sv' = [SaveLocals EXCEPT !.ret = ok]
            /\ obs' = [obs EXCEPT !.save_calls = @ + 1, !.out_opens = @ + 1]
    /\ UNCHANGED <<main_vars, disk, image, loaded, ld>>

\* lines 122-128
Main_CheckSave ==
    /\ pc = "save_done"
    /\ IF ~sv.ret THEN Main_Exit(5) ELSE Main_Exit(0)
    /\ UNCHANGED <<argv, in_format, out_format, path, disk, image, loaded, sv, ld, obs>>

Main ==
    \/ Main_CheckArgs
    \/ Main_InFormat
    \/ Main_OutFormat
    \/ Main_Load
    \/ Main_CheckLoad
    \/ Main_Save
    \/ Main_CheckSave

NextMain == Main \/ LoadBMP \/ SaveBMP

SpecMain == InitMain /\ [][NextMain]_vars

(***************************************************************************)
(* Properties of the codec, checked under Spec.                             *)
(***************************************************************************)
\* the multiple of 4 among 3w, 3w+1, 3w+2, 3w+3: 4 * ceil(3w / 4)
PaddedRowLen(w) == CHOOSE s \in (3 * w)..(3 * w + 3) : s % 4 = 0

\* the bytes of the file the codec works on
TheBytes == disk[path].bytes

\* header fields of a file, by their byte offsets in the file
Field_signature(b) == FromLE16(b, 0 + 1)
Field_file_size(b) == FromLE32(b, 2 + 1)
Field_offset(b) == FromLE32(b, 10 + 1)
Field_header_size(b) == FromLE32(b, 14 + 1)
Field_width(b) == FromLE32Signed(b, 18 + 1)
Field_height(b) == FromLE32Signed(b, 22 + 1)
Field_planes(b) == FromLE16(b, 26 + 1)
Field_bits(b) == FromLE16(b, 28 + 1)
Field_compression(b) == FromLE32(b, 30 + 1)
Field_image_size(b) == FromLE32(b, 34 + 1)

\* every header field but the named one has its supported value
OnlyBad(b, field) ==
    /\ (field # "signature") => Field_signature(b) = 19778
    /\ (field # "offset") => Field_offset(b) = 54
    /\ (field # "header_size") => Field_header_size(b) = 40
    /\ (field # "planes") => Field_planes(b) = 1
    /\ (field # "bits") => Field_bits(b) = 24
    /\ (field # "compression") => Field_compression(b) = 0
    /\ (field # "width") => Field_width(b) > 0
    /\ (field # "height") => Field_height(b) > 0

SinkNeverFailed == ~obs.open_failed /\ ~obs.write_failed

\* SaveBMP has returned and LoadBMP has not been called yet
SaveReturned == pc = "save_done"

\* LoadBMP has returned after opening its file
LoadReturned == pc = "load_done" /\ obs.returned_at # 82

SamePixels(a, b) ==
    \A y \in 1..a.height : \A x \in 1..a.width : a.pixels[y][x] = b.pixels[y][x]

\* C1: round trip.  For every image with width >= 1 and height >= 1, LoadBMP of
\* the file a successful SaveBMP wrote returns an image of the same width and
\* height with the same (R,G,B) value at every position.
C1_RoundTrip ==
    (LoadReturned /\ obs.save_calls = 1 /\ sv.ret /\ image.width >= 1 /\ image.height >= 1)
        => /\ loaded.width = image.width
           /\ loaded.height = image.height
           /\ SamePixels(image, loaded)

\* C2: when LoadBMP succeeds, the image it returns has the width and the height
\* the info header declares.
C2_DeclaredDimensions ==
    (pc = "load_done" /\ obs.returned_at = 131)
        => /\ loaded.width = Field_width(TheBytes)
           /\ loaded.height = Field_height(TheBytes)

\* C3: once both headers are read, LoadBMP returns the empty image, and has read
\* no pixel row, whenever signature # 0x4D42, offset # 54, header size # 40,
\* planes # 1, bits per pixel # 24, compression # 0, width <= 0 or height <= 0.
C3_RejectsUnsupported ==
    (obs.load_calls = 1 /\ Len(TheBytes) >= 54
     /\ (\/ Field_signature(TheBytes) # 19778
         \/ Field_offset(TheBytes) # 54
         \/ Field_header_size(TheBytes) # 40
         \/ Field_planes(TheBytes) # 1
         \/ Field_bits(TheBytes) # 24
         \/ Field_compression(TheBytes) # 0
         \/ Field_width(TheBytes) <= 0
         \/ Field_height(TheBytes) <= 0))
        => /\ obs.rows_read = 0
           /\ pc = "load_done" => loaded = Image_Default

\* a file whose only unsupported field is bits per pixel = 8 has been rejected
C3_Witness ==
    /\ LoadReturned
    /\ Len(TheBytes) >= 54
    /\ Field_bits(TheBytes) = 8
    /\ OnlyBad(TheBytes, "bits")
    /\ loaded = Image_Default
    /\ obs.returned_at = 107

\* C4: LoadBMP returns the empty image for every file shorter than 54 bytes and
\* for every file with supported headers shorter than 54 + stride * height; it
\* returns a populated image only after height reads of stride bytes each.
C4_TruncatedFile ==
    LoadReturned =>
        /\ Len(TheBytes) < 54 => loaded = Image_Default
        /\ (Len(TheBytes) >= 54 /\ OnlyBad(TheBytes, "none")
            /\ Len(TheBytes) < 54 + PaddedRowLen(Field_width(TheBytes)) * Field_height(TheBytes))
                => loaded = Image_Default
        /\ loaded # Image_Default
                => /\ Len(TheBytes) >= 54
                   /\ obs.rows_read = Field_height(TheBytes)
                   /\ obs.rows_full = Field_height(TheBytes)
                   /\ ld.stride = PaddedRowLen(Field_width(TheBytes))
                   /\ Len(TheBytes) >= 54 + ld.stride * Field_height(TheBytes)

\* a file that ends inside its second row: one row was read in full, the image
\* is not returned
C4_Witness ==
    /\ LoadReturned
    /\ obs.returned_at = 121
    /\ obs.rows_read = 2
    /\ obs.rows_full = 1
    /\ ld.gcount > 0
    /\ loaded = Image_Default

\* C5: a SaveBMP whose sink never fails writes 54 + stride * height bytes, and
\* its headers declare signature 0x4D42, file size 14 + 40 + stride * height
\* (the number of bytes written), offset 54, header size 40, the image's width
\* and height, planes 1, 24 bits per pixel, compression 0 and image size
\* stride * height.
C5_HeadersAndLength ==
    (SaveReturned /\ SinkNeverFailed /\ image.width >= 1 /\ image.height >= 1)
        => LET data == PaddedRowLen(image.width) * image.height
           IN  /\ Len(TheBytes) = 54 + data
               /\ Field_signature(TheBytes) = 19778
               /\ Field_file_size(TheBytes) = 14 + 40 + data
               /\ Field_file_size(TheBytes) = Len(TheBytes)
               /\ Field_offset(TheBytes) = 54
               /\ Field_header_size(TheBytes) = 40
               /\ Field_width(TheBytes) = image.width
               /\ Field_height(TheBytes) = image.height
               /\ Field_planes(TheBytes) = 1
               /\ Field_bits(TheBytes) = 24
               /\ Field_compression(TheBytes) = 0
               /\ Field_image_size(TheBytes) = data

\* a 3 x 2 image (3 bytes of padding in each row) has been saved without failure
C5_Witness ==
    /\ SaveReturned
    /\ SinkNeverFailed
    /\ sv.ret
    /\ image.width = 3
    /\ image.height = 2

\* C6: in the file SaveBMP wrote, the bytes at 54 + k * stride + 3x are the blue,
\* green and red channel of pixel (x, height - 1 - k), and the stride - 3 * width
\* bytes after the last pixel of each row are 0; the 2 x 2 fixture gives 70 bytes
\* with FF 00 00 FF FF FF 00 00 at 54..61.
C6_PixelLayout ==
    (SaveReturned /\ SinkNeverFailed /\ image.width >= 1 /\ image.height >= 1)
        => LET stride == PaddedRowLen(image.width)
               b == TheBytes
           IN  /\ Len(b) >= 54 + stride * image.height
               /\ \A k \in 0..(image.height - 1) :
                    /\ \A x \in 0..(image.width - 1) :
                        LET px == image.pixels[(image.height - 1 - k) + 1][x + 1]
                            at == 54 + k * stride + 3 * x
                        IN  /\ b[at + 1] = px.b
                            /\ b[at + 2] = px.g
                            /\ b[at + 3] = px.r
                    /\ \A j \in (3 * image.width)..(stride - 1) :
                        b[54 + k * stride + j + 1] = 0
               /\ image = Fixture2x2
                    => /\ Len(b) = 70
                       /\ SubSeq(b, 55, 62) = <<255, 0, 0, 255, 255, 255, 0, 0>>

\* the 2 x 2 fixture has been saved without failure
C6_Witness ==
    /\ SaveReturned
    /\ SinkNeverFailed
    /\ image = Fixture2x2
    /\ Len(TheBytes) = 70

IsPrefix(a, b) == Len(a) <= Len(b) /\ SubSeq(b, 1, Len(a)) = a

\* SaveBMP returns true exactly when the file was opened and no write failed
C7_Result ==
    SaveReturned => (sv.ret <=> SinkNeverFailed)

\* a stream that is not good stays so and writes nothing more, and no step of
\* SaveBMP takes back bytes the file already holds
C7_Sticky ==
    (pc \in {"save_file_header", "save_info_header", "save_rows"})
        => /\ ~sv.out.good => (~sv'.out.good /\ disk' = disk)
           /\ disk[path].exists => IsPrefix(disk[path].bytes, disk'[path].bytes)

C10_InBounds ==
    /\ obs.save_in_bounds
    /\ obs.load_in_bounds
    /\ (SaveReturned /\ SinkNeverFailed /\ (image.width = 0 \/ image.height = 0))
        => (sv.ret /\ Len(TheBytes) = 54)

\* an image of width 0 and height 2 has been saved: two rows of no bytes
C10_Witness ==
    /\ SaveReturned
    /\ SinkNeverFailed
    /\ image.width = 0
    /\ image.height = 2
    /\ Len(TheBytes) = 54

(***************************************************************************)
(* Property of GetBMPStride, checked under SpecStride.                      *)
(***************************************************************************)
StrideIsPadded(stride, w) ==
    /\ stride % 4 = 0
    /\ stride >= 3 * w
    /\ stride - 3 * w \in {0, 1, 2, 3}
    /\ stride = PaddedRowLen(w)

\* C8: for every width, the stride is a multiple of 4, at least 3 * width, with
\* stride - 3 * width in {0,1,2,3}, that is 4 * ceil(3 * width / 4); SaveBMP and
\* LoadBMP use this same value for the same width.
C8_Stride ==
    /\ pc = "save_open" => StrideIsPadded(sv.stride, image.width)
    /\ pc = "load_rows" => StrideIsPadded(ld.stride, Field_width(TheBytes))

\* LoadBMP has computed the stride of a file 101 pixels wide
C8_Witness ==
    /\ pc = "load_rows"
    /\ Field_width(TheBytes) = 101
    /\ ld.stride = 304

(***************************************************************************)
(* Property of main, checked under SpecMain.                                *)
(***************************************************************************)
KnownExtensions ==
    {<<".", "j", "p", "g">>, <<".", "j", "p", "e", "g">>, <<".", "p", "p", "m">>,
     <<".", "b", "m", "p">>}

ExpectedExitCode ==
    IF Len(argv) + 1 # 3 THEN 1
    ELSE IF Extension(argv[1]) \notin KnownExtensions THEN 2
    ELSE IF Extension(argv[2]) \notin KnownExtensions THEN 3
    ELSE IF ~Image_Valid(loaded) THEN 4
    ELSE IF ~sv.ret THEN 5
    ELSE 0

\* C9: main ends with 1 on a wrong argument count, 2 on an unknown input
\* extension, 3 on an unknown output extension, 4 when the load returns the
\* empty image, 5 when the save returns false, 0 otherwise; the load is called
\* only with both formats recognised, the save only after a valid image was
\* loaded, and no output file is opened on the exit codes 1 to 4.
C9_ExitCodes ==
    /\ pc = "exit" => exit_code = ExpectedExitCode
    /\ pc # "exit" => exit_code = -1
    /\ obs.load_calls > 0
        => /\ Len(argv) + 1 = 3
           /\ Extension(argv[1]) \in KnownExtensions
           /\ Extension(argv[2]) \in KnownExtensions
    /\ obs.save_calls > 0 => (obs.load_calls = 1 /\ Image_Valid(loaded))
    /\ obs.out_opens > 0 => obs.save_calls = 1
    /\ (pc = "exit" /\ exit_code \in 1..4) => (obs.save_calls = 0 /\ obs.out_opens = 0)
    /\ (pc = "exit" /\ exit_code \in {0, 5}) => (obs.load_calls = 1 /\ obs.save_calls = 1)

\* a.bmp was loaded, and saving it as b.bmp failed in a write: exit code 5
C9_Witness ==
    /\ pc = "exit"
    /\ exit_code = 5
    /\ in_format = "bmp"
    /\ out_format = "bmp"
    /\ obs.write_failed

====
